---- MODULE Spec2Model ----
(***************************************************************************)
(* OBM, the Object-Bit Mapper (obm.py): bit field partitions, the records  *)
(* that own them, packing (data_int, data_ints, partition_map) and         *)
(* unpacking (parse_data_int).                                             *)
(*                                                                         *)
(* Python objects live in a heap of cells addressed by references, so that *)
(* sharing and copying of partition objects is visible.  Python integers   *)
(* are unbounded and signed; the bit operators below follow Python's       *)
(* two's-complement semantics on them.                                     *)
(***************************************************************************)
EXTENDS Integers, Sequences, FiniteSets

VARIABLES
    error_check_overflow, \* Config.error_check_overflow
    heap,                 \* reference -> BitFieldPartition object
    insts,                \* program variable -> BitField object it is bound to
    ret,                  \* the last call and what it returned or raised
    rt,                   \* progress of a data_int / parse_data_int / data_int sequence
    always_checked        \* error_check_overflow has been True ever since start

vars == <<error_check_overflow, heap, insts, ret, rt, always_checked>>

(***************************************************************************)
(* Bounds and input sets                                                   *)
(***************************************************************************)

\* Assigned values are taken within Delta of 0 and within Delta of the mask.
Delta == 1

\* The program variables that hold records.
Insts == {"A", "B"}

BitsPerByte == 8

(***************************************************************************)
(* Python integer operators: >>, <<, &, |                                  *)
(***************************************************************************)

ShiftLeft(x, n) == x * (2 ^ n)

\* Arithmetic shift: floor division, also for negative x.
ShiftRight(x, n) == x \div (2 ^ n)

RECURSIVE BitAnd(_, _)
BitAnd(x, y) ==
    IF x = 0 \/ y = 0 THEN 0
    ELSE IF x = -1 THEN y
    ELSE IF y = -1 THEN x
    ELSE ((x % 2) * (y % 2)) + 2 * BitAnd(x \div 2, y \div 2)

RECURSIVE BitOr(_, _)
BitOr(x, y) ==
    IF x = 0 THEN y
    ELSE IF y = 0 THEN x
    ELSE IF x = -1 \/ y = -1 THEN -1
    ELSE ((x % 2) + (y % 2) - ((x % 2) * (y % 2))) + 2 * BitOr(x \div 2, y \div 2)

(***************************************************************************)
(* Exceptions and call results                                             *)
(***************************************************************************)

NoExc == [type |-> "None", name |-> "", length |-> 0, value |-> 0]

OverflowError(name, length, value) ==
    [type |-> "OverflowError", name |-> name, length |-> length, value |-> value]

NotImplementedError == [type |-> "NotImplementedError", name |-> "", length |-> 0, value |-> 0]

ValueError(name) == [type |-> "ValueError", name |-> name, length |-> 0, value |-> 0]

Returned(v) == [exc |-> NoExc, val |-> v]

Raised(e) == [exc |-> e, val |-> 0]

(***************************************************************************)
(* BitFieldPartition                                                       *)
(***************************************************************************)

BitFieldPartition(start_byte, start_bit, length, value) ==
    [name |-> "", start_byte |-> start_byte, start_bit |-> start_bit,
     length |-> length, value |-> value]

\* mask without the decrement.
mask_wide(p) == ShiftLeft(1, p.length)

mask(p) == ShiftLeft(1, p.length) - 1

shift(p) == (p.start_byte * BitsPerByte) + p.start_bit

\* The guard of the value setter.
setter_rejects(p, value, check) == check /\ ShiftRight(value, p.length) > 0

\* The value setter: the partition after the call, and what the call raised.
set_value(p, value, check) ==
    IF setter_rejects(p, value, check)
    THEN [p |-> p, exc |-> OverflowError(p.name, p.length, value)]
    ELSE [p |-> [p EXCEPT !.value = value], exc |-> NoExc]

\* masked_value that hands out the stored value unmasked.
masked_value_raw(p) == p.value

masked_value(p) == BitAnd(p.value, mask(p))

prefixed_name(p) == <<p.start_byte, p.start_bit, p.length, p.name>>

\* parse that masks the data without shifting it down.
parse_unshifted(p, data) == [p EXCEPT !.value = BitAnd(data, mask(p))]

parse(p, data) == [p EXCEPT !.value = BitAnd(ShiftRight(data, shift(p)), mask(p))]

(***************************************************************************)
(* The record types the program declares                                   *)
(***************************************************************************)

\* nbytes that each fixed-width base class passes to BitField.__init__.
IntBitFields == [Int8BitField |-> 1, Int16BitField |-> 2]

\* Concrete record types, declared the way test.py declares
\* ExtendedJoystickMessage: a fixed-width base and partition templates as
\* class attributes, listed here in declaration order.
Declared ==
    [Nibbles |-> [base |-> "Int8BitField", body |->
        << [binding |-> "lo", template |-> BitFieldPartition(0, 0, 4, 0)],
           [binding |-> "hi", template |-> BitFieldPartition(0, 4, 4, 0)] >>],
     Gap |-> [base |-> "Int8BitField", body |->
        << [binding |-> "b2", template |-> BitFieldPartition(0, 4, 2, 2)],
           [binding |-> "b1", template |-> BitFieldPartition(0, 0, 2, 0)] >>],
     Over |-> [base |-> "Int8BitField", body |->
        << [binding |-> "lo", template |-> BitFieldPartition(0, 0, 2, 0)],
           [binding |-> "hi", template |-> BitFieldPartition(0, 7, 2, 0)] >>],
     Olap |-> [base |-> "Int8BitField", body |->
        << [binding |-> "x", template |-> BitFieldPartition(0, 0, 2, 0)],
           [binding |-> "y", template |-> BitFieldPartition(0, 1, 2, 4)] >>],
     Word |-> [base |-> "Int16BitField", body |->
        << [binding |-> "z", template |-> BitFieldPartition(1, 5, 3, 0)],
           [binding |-> "a", template |-> BitFieldPartition(0, 6, 3, 0)] >>],
     Early |-> [base |-> "Int8BitField", body |->
        << [binding |-> "ant", template |-> BitFieldPartition(1, 0, 2, 5)] >>]]

Bindings(cls) == {Declared[cls].body[k].binding : k \in DOMAIN Declared[cls].body}

Template(cls, binding) ==
    LET k == CHOOSE j \in DOMAIN Declared[cls].body : Declared[cls].body[j].binding = binding
    IN  Declared[cls].body[k].template

\* The class attribute a template is bound to, and the cell of an object's own partition.
ClassAttr(cls, binding) == <<"class", cls, binding>>

Owned(self, binding) == <<"object", self, binding>>

TemplateRefs == UNION {{ClassAttr(cls, b) : b \in Bindings(cls)} : cls \in DOMAIN Declared}

\* The properties of BitField that getattr evaluates while __init__ walks dir(self)
\* and that read data_int.
DataProperties == {"data_bytes", "data_int", "data_ints"}

\* Code points of the attribute names, for Python's string ordering.
codepoints ==
    [lo |-> <<108, 111>>, hi |-> <<104, 105>>, b1 |-> <<98, 49>>, b2 |-> <<98, 50>>,
     x |-> <<120>>, y |-> <<121>>, z |-> <<122>>, a |-> <<97>>, ant |-> <<97, 110, 116>>,
     data_bytes |-> <<100, 97, 116, 97, 95, 98, 121, 116, 101, 115>>,
     data_int |-> <<100, 97, 116, 97, 95, 105, 110, 116>>,
     data_ints |-> <<100, 97, 116, 97, 95, 105, 110, 116, 115>>]

RECURSIVE LexLess(_, _)
LexLess(s, t) ==
    IF s = <<>> THEN t # <<>>
    ELSE IF t = <<>> THEN FALSE
    ELSE IF Head(s) # Head(t) THEN Head(s) < Head(t)
    ELSE LexLess(Tail(s), Tail(t))

RECURSIVE SortNames(_)
SortNames(S) ==
    IF S = {} THEN <<>>
    ELSE LET m == CHOOSE n \in S : \A o \in S \ {n} : LexLess(codepoints[n], codepoints[o])
         IN  <<m>> \o SortNames(S \ {m})

\* dir that lists the templates in declaration order.
dir_declared(cls) ==
    (IF cls \in DOMAIN Declared
     THEN [k \in DOMAIN Declared[cls].body |-> Declared[cls].body[k].binding]
     ELSE <<>>) \o SortNames(DataProperties)

\* dir(self) in BitField.__init__: the names in sorted order (those that matter
\* to the loop: partition templates and the data properties).
dir(cls) == SortNames((IF cls \in DOMAIN Declared THEN Bindings(cls) ELSE {}) \cup DataProperties)

(***************************************************************************)
(* BitField                                                                *)
(***************************************************************************)

NoObject == [cls |-> "None", name |-> "", nbytes |-> 0, partitions |-> <<>>, attrs |-> <<>>]

Range(s) == {s[k] : k \in DOMAIN s}

nbits(obj) == obj.nbytes * BitsPerByte

field_mask(obj) == ShiftLeft(1, nbits(obj)) - 1

\* The loop of data_int over self.partitions.
RECURSIVE data_fold(_, _, _)
data_fold(h, partitions, data) ==
    IF partitions = <<>> THEN data
    ELSE data_fold(h, Tail(partitions),
                   BitOr(data, ShiftLeft(masked_value(h[Head(partitions)]), shift(h[Head(partitions)]))))

data_int(h, obj, check) ==
    LET data == data_fold(h, obj.partitions, 0)
    IN  IF check /\ ShiftRight(data, nbits(obj)) > 0
        THEN Raised(OverflowError(obj.name, nbits(obj), 0))
        ELSE Returned(BitAnd(data, field_mask(obj)))

\* data_ints with the most significant byte first.
data_ints_big_endian(h, obj, check) ==
    LET r == data_int(h, obj, check)
    IN  IF r.exc # NoExc THEN r
        ELSE Returned([k \in 1..obj.nbytes |->
                          BitAnd(ShiftRight(r.val, (obj.nbytes - k) * 8), 255)])

data_ints(h, obj, check) ==
    LET r == data_int(h, obj, check)
    IN  IF r.exc # NoExc THEN r
        ELSE Returned([k \in 1..obj.nbytes |-> BitAnd(ShiftRight(r.val, (k - 1) * 8), 255)])

parse_data_int(h, obj, data) ==
    [r \in DOMAIN h |-> IF r \in Range(obj.partitions) THEN parse(h[r], data) ELSE h[r]]

partition(h, obj, name) ==
    LET hits == {k \in DOMAIN obj.partitions : h[obj.partitions[k]].name = name}
    IN  IF hits = {} THEN Raised(ValueError(name))
        ELSE Returned(obj.partitions[CHOOSE k \in hits : \A j \in hits : k <= j])

\* map_entry that masks the packed data without shifting it down.
map_entry_unshifted(p, data) == BitAnd(data, mask(p))

\* The value partition_map computes for partition p out of the packed data.
map_entry(p, data) == BitAnd(ShiftRight(data, shift(p)), mask(p))

partition_key(p, prefix) == IF prefix THEN prefixed_name(p) ELSE <<p.name>>

partition_map(h, obj, prefix, check) ==
    LET r == data_int(h, obj, check)
        keys == {partition_key(h[obj.partitions[k]], prefix) : k \in DOMAIN obj.partitions}
        last(key) == CHOOSE k \in DOMAIN obj.partitions :
                        /\ partition_key(h[obj.partitions[k]], prefix) = key
                        /\ \A j \in DOMAIN obj.partitions :
                              partition_key(h[obj.partitions[j]], prefix) = key => j <= k
        entry(key) == map_entry(h[obj.partitions[last(key)]], r.val)
    IN  IF r.exc # NoExc THEN r
        ELSE Returned([key \in keys |-> entry(key)])

(***************************************************************************)
(* Construction                                                            *)
(***************************************************************************)

\* type(C) for a class object C: every class here is an instance of type.
ClassOfClass(C) == "type"

\* The guard at the head of C.__init__, run on an instance of class cls.
init_guard(cls, C) == cls = ClassOfClass(C)

\* No copy: the reference to the object behind src itself.
deepcopy_alias(src, fresh) == src

\* copy.deepcopy: a reference to a new object, equal to the one behind src.
deepcopy(src, fresh) == fresh

\* The loop of BitField.__init__ over dir(self).  st holds the heap, the
\* partitions list and the instance attributes built so far, and the
\* exception a property read raised, if any.
RECURSIVE init_loop(_, _, _, _, _, _, _)
init_loop(names, self, cls, rname, nbytes, check, st) ==
    IF names = <<>> \/ st.exc # NoExc THEN st
    ELSE LET name == Head(names)
             src == ClassAttr(cls, name)
             ref == deepcopy(src, Owned(self, name))
             got == data_int(st.heap,
                             [cls |-> cls, name |-> rname, nbytes |-> nbytes,
                              partitions |-> st.partitions, attrs |-> st.attrs], check)
             next ==
                IF name \in DataProperties
                THEN [st EXCEPT !.exc = got.exc]
                ELSE [st EXCEPT
                        !.heap = [r \in DOMAIN st.heap \cup {ref} |->
                                    IF r = ref THEN [st.heap[src] EXCEPT !.name = name]
                                    ELSE st.heap[r]],
                        !.partitions = Append(st.partitions, ref),
                        !.attrs = [b \in DOMAIN st.attrs \cup {name} |->
                                    IF b = name THEN ref ELSE st.attrs[b]]]
         IN  init_loop(Tail(names), self, cls, rname, nbytes, check, next)

\* BitField.__init__(self, name, nbytes) on a new instance of class cls that the
\* program will bind to variable self: the exception raised, the object, the heap.
BitField_init(h, self, cls, name, nbytes, check) ==
    IF init_guard(cls, "BitField")
    THEN [exc |-> NotImplementedError, partitions |-> <<>>, attrs |-> <<>>, heap |-> h]
    ELSE init_loop(dir(cls), self, cls, name, nbytes, check,
                   [exc |-> NoExc, partitions |-> <<>>, attrs |-> <<>>, heap |-> h])

\* Int8BitField.__init__ and Int16BitField.__init__ (C is the class that defines it).
IntBitField_init(h, self, cls, C, name, check) ==
    IF init_guard(cls, C)
    THEN [exc |-> NotImplementedError, partitions |-> <<>>, attrs |-> <<>>, heap |-> h]
    ELSE BitField_init(h, self, cls, name, IntBitFields[C], check)

\* __init__ of a declared record type: super().__init__(self.__class__.__name__).
Record_init(h, self, cls, check) ==
    IntBitField_init(h, self, cls, Declared[cls].base, cls, check)

(***************************************************************************)
(* Inputs                                                                  *)
(***************************************************************************)

\* Values a caller assigns to partition p: around 0 and around the mask.
ValueInputs(p) == ((0 - Delta)..Delta) \cup ((mask(p) - Delta)..(mask(p) + Delta))

ByteSamples == {0, 1, 15, 60, 64, 129, 165, 195, 224, 255}

WordBytes == {0, 1, 129, 165, 224, 255}

\* Integers a caller hands to parse_data_int of a record of nbytes bytes:
\* sampled byte patterns (least significant byte first for a two-byte record)
\* and some integers outside [0, 2^nbits).
RawInputs(nbytes) ==
    IF nbytes = 1 THEN ByteSamples \cup {-1, 421, 511}
    ELSE {lo + (256 * hi) : lo \in WordBytes, hi \in WordBytes} \cup {-1, 65536 + 421, 131071}

\* The integer the program has just read from data_int, to parse it back.
ReadBack == IF ret.op = "data_int" /\ ret.exc = NoExc THEN {ret.val} ELSE {}

\* A smaller choice of the same inputs.
FewValueInputs(p) == {1, mask(p) + Delta}

FewRawInputs == {165}

\* The record types the two-variable specification instantiates.
SharedTypes == {"Gap", "Olap", "Nibbles"}

RecordNames == {"msg"}

AttrNames == {"lo", "hi", "b1", "b2", "x", "y", "z", "a", "ant", "nope"}

(***************************************************************************)
(* State                                                                   *)
(***************************************************************************)

Call(op, self, key, arg, exc, val) ==
    [op |-> op, self |-> self, key |-> key, arg |-> arg, exc |-> exc, val |-> val]

Idle == [stage |-> "idle", self |-> "", d |-> 0, within |-> FALSE, again |-> Returned(0)]

\* Every partition of obj holds a value in [0, mask].
Within(h, obj) ==
    \A r \in Range(obj.partitions) : 0 <= h[r].value /\ h[r].value <= mask(h[r])

Init ==
    /\ error_check_overflow = TRUE
    /\ always_checked = TRUE
    /\ heap = [r \in TemplateRefs |-> Template(r[2], r[3])]
    /\ insts = [i \in Insts |-> NoObject]
    /\ ret = Call("import", "", "", 0, NoExc, 0)
    /\ rt = Idle

(***************************************************************************)
(* Operations                                                              *)
(***************************************************************************)

\* Config.error_check_overflow = b
SetErrorCheckOverflow(b) ==
    /\ error_check_overflow' = b
    /\ always_checked' = (always_checked /\ b)
    /\ ret' = Call("Config", "", "", 0, NoExc, b)
    /\ UNCHANGED <<heap, insts, rt>>

\* The heap without the partitions of the object variable i is bound to.
Unbound(h, i) == [r \in {q \in DOMAIN h : q[1] = "class" \/ q[2] # i} |-> h[r]]

\* i = cls(...): st is what __init__ left.  A raised exception leaves i bound
\* to what it was bound to; the new object is dropped.
Bind(i, cls, name, nbytes, st) ==
    /\ IF st.exc = NoExc
       THEN /\ insts' = [insts EXCEPT ![i] =
                           [cls |-> cls, name |-> name, nbytes |-> nbytes,
                            partitions |-> st.partitions, attrs |-> st.attrs]]
            /\ heap' = st.heap
       ELSE /\ insts' = insts
            /\ heap' = [r \in DOMAIN heap |-> IF r[1] = "class" THEN st.heap[r] ELSE heap[r]]
    /\ ret' = Call("__init__", i, cls, nbytes, st.exc, 0)
    /\ rt' = IF rt.self = i /\ st.exc = NoExc THEN Idle ELSE rt
    /\ UNCHANGED <<error_check_overflow, always_checked>>

\* i = BitField(name, nbytes)
ConstructBitField(i, name, nbytes) ==
    /\ nbytes \in Nat
    /\ Bind(i, "BitField", name, nbytes,
            BitField_init(Unbound(heap, i), i, "BitField", name, nbytes, error_check_overflow))

\* i = Int8BitField(name), i = Int16BitField(name)
ConstructIntBitField(i, C, name) ==
    /\ C \in DOMAIN IntBitFields
    /\ Bind(i, C, name, IntBitFields[C],
            IntBitField_init(Unbound(heap, i), i, C, C, name, error_check_overflow))

\* i = cls() for a declared record type
ConstructRecord(i, cls) ==
    /\ cls \in DOMAIN Declared
    /\ Bind(i, cls, cls, IntBitFields[Declared[cls].base],
            Record_init(Unbound(heap, i), i, cls, error_check_overflow))

\* i.binding.value = v
SetValue(i, binding, v) ==
    /\ insts[i] # NoObject
    /\ binding \in DOMAIN insts[i].attrs
    /\ LET ref == insts[i].attrs[binding]
           r == set_value(heap[ref], v, error_check_overflow)
       IN  /\ heap' = [heap EXCEPT ![ref] = r.p]
           /\ ret' = Call("value", i, binding, v, r.exc, 0)
    /\ rt' = IF rt.self = i THEN Idle ELSE rt
    /\ UNCHANGED <<error_check_overflow, always_checked, insts>>

\* i.parse_data_int(raw)
ParseDataInt(i, raw) ==
    /\ insts[i] # NoObject
    /\ heap' = parse_data_int(heap, insts[i], raw)
    /\ ret' = Call("parse_data_int", i, "", raw, NoExc, 0)
    /\ rt' = IF rt.self # i THEN rt
             ELSE IF rt.stage = "read" /\ raw = rt.d THEN [rt EXCEPT !.stage = "parsed"]
             ELSE Idle
    /\ UNCHANGED <<error_check_overflow, always_checked, insts>>

\* i.data_int
DataInt(i) ==
    /\ insts[i] # NoObject
    /\ LET r == data_int(heap, insts[i], error_check_overflow)
       IN  /\ ret' = Call("data_int", i, "", 0, r.exc, r.val)
           /\ rt' = IF rt.self = i /\ rt.stage = "parsed"
                    THEN [rt EXCEPT !.stage = "again", !.again = r]
                    ELSE IF r.exc = NoExc
                    THEN [stage |-> "read", self |-> i, d |-> r.val,
                          within |-> Within(heap, insts[i]), again |-> Returned(0)]
                    ELSE IF rt.self = i THEN Idle ELSE rt
    /\ UNCHANGED <<error_check_overflow, always_checked, heap, insts>>

\* i.data_ints
DataInts(i) ==
    /\ insts[i] # NoObject
    /\ LET r == data_ints(heap, insts[i], error_check_overflow)
       IN  ret' = Call("data_ints", i, "", 0, r.exc, r.val)
    /\ UNCHANGED <<error_check_overflow, always_checked, heap, insts, rt>>

\* i.partition(name)
Partition(i, name) ==
    /\ insts[i] # NoObject
    /\ LET r == partition(heap, insts[i], name)
       IN  ret' = Call("partition", i, name, 0, r.exc, r.val)
    /\ UNCHANGED <<error_check_overflow, always_checked, heap, insts, rt>>

\* i.partition_map(prefix)
PartitionMap(i, prefix) ==
    /\ insts[i] # NoObject
    /\ LET r == partition_map(heap, insts[i], prefix, error_check_overflow)
       IN  ret' = Call("partition_map", i, "", prefix, r.exc, r.val)
    /\ UNCHANGED <<error_check_overflow, always_checked, heap, insts, rt>>

(***************************************************************************)
(* Specifications                                                          *)
(***************************************************************************)

\* One record variable, every operation, the full inputs.
Next ==
    \/ \E b \in BOOLEAN : SetErrorCheckOverflow(b)
    \/ \E name \in RecordNames, nbytes \in {1, 2} : ConstructBitField("A", name, nbytes)
    \/ \E C \in DOMAIN IntBitFields, name \in RecordNames : ConstructIntBitField("A", C, name)
    \/ \E cls \in DOMAIN Declared : ConstructRecord("A", cls)
    \/ \E binding \in AttrNames :
          /\ binding \in DOMAIN insts["A"].attrs
          /\ \E v \in ValueInputs(heap[insts["A"].attrs[binding]]) : SetValue("A", binding, v)
    \/ \E raw \in RawInputs(insts["A"].nbytes) \cup ReadBack : ParseDataInt("A", raw)
    \/ DataInt("A")
    \/ DataInts("A")
    \/ \E name \in DOMAIN insts["A"].attrs \cup {"nope"} : Partition("A", name)
    \/ \E prefix \in BOOLEAN : PartitionMap("A", prefix)

Spec == Init /\ [][Next]_vars

\* Two record variables, the operations that construct and change records.
NextShared ==
    \/ \E b \in BOOLEAN : SetErrorCheckOverflow(b)
    \/ \E i \in Insts, cls \in SharedTypes : ConstructRecord(i, cls)
    \/ \E i \in Insts, binding \in AttrNames :
          /\ binding \in DOMAIN insts[i].attrs
          /\ \E v \in FewValueInputs(heap[insts[i].attrs[binding]]) : SetValue(i, binding, v)
    \/ \E i \in Insts, raw \in FewRawInputs : ParseDataInt(i, raw)

SpecShared == Init /\ [][NextShared]_vars

(***************************************************************************)
(* Vocabulary of the properties: bits and bit positions                    *)
(***************************************************************************)

\* Bit k of integer x (two's complement for negative x).
Bit(x, k) == (x \div (2 ^ k)) % 2

\* The bit positions of the record that partition p spans.
Span(p) == shift(p)..(shift(p) + p.length - 1)

Parts(i) == {heap[r] : r \in Range(insts[i].partitions)}

CoveredBits(i) == UNION {Span(p) : p \in Parts(i)}

RECURSIVE SumPow2(_)
SumPow2(S) ==
    IF S = {} THEN 0
    ELSE LET k == CHOOSE j \in S : TRUE IN (2 ^ k) + SumPow2(S \ {k})

\* x restricted to the bit positions in S.
Restrict(x, S) == SumPow2({k \in S : Bit(x, k) = 1})

\* Bits of partition p's value below its length, moved to the record's positions.
PlacedBits(p) == {k \in Span(p) : Bit(p.value, k - shift(p)) = 1}

FitsIn(i) == \A p \in Parts(i) : shift(p) + p.length <= nbits(insts[i])

NoOverlap(i) ==
    \A q, r \in Range(insts[i].partitions) : q # r => Span(heap[q]) \cap Span(heap[r]) = {}

Bases == {"BitField"} \cup DOMAIN IntBitFields

IsRecord(i) == insts[i].cls \in DOMAIN Declared

RECURSIVE LittleEndian(_)
LittleEndian(bytes) ==
    IF bytes = <<>> THEN 0 ELSE Head(bytes) + (256 * LittleEndian(Tail(bytes)))

(***************************************************************************)
(* C1  Round trip                                                          *)
(***************************************************************************)

\* C1: when data_int returned d for a record whose partition values all lay
\* in [0, mask], and parse_data_int(d) was then called on it, the next read of
\* data_int returns d again.
RoundTrip ==
    (rt.stage = "again" /\ rt.within) => (rt.again.exc = NoExc /\ rt.again.val = rt.d)

RoundTripWitness ==
    /\ rt.stage = "again" /\ rt.within
    /\ rt.d # 0
    /\ insts[rt.self].cls = "Olap"

(***************************************************************************)
(* C2  Unpack, then pack                                                   *)
(***************************************************************************)

ParseCase(call) ==
    /\ call.op = "parse_data_int"
    /\ FitsIn(call.self)
    /\ 0 <= call.arg /\ call.arg < 2 ^ nbits(insts[call.self])

\* C2: on a record whose partitions lie within its nbits bits, parse_data_int(raw)
\* with 0 <= raw < 2^nbits raises nothing under either setting of the flag and
\* leaves every partition holding bits shift..shift+length-1 of raw; a data_int
\* read right after it returns raw restricted to the covered bit positions, which
\* is raw itself when every bit position is covered.
UnpackPack ==
    [][ /\ ParseCase(ret)' =>
              /\ ret'.exc = NoExc
              /\ \A r \in Range(insts'[ret'.self].partitions) :
                    heap'[r].value =
                        SumPow2({j \in 0..(heap'[r].length - 1) :
                                    Bit(ret'.arg, shift(heap'[r]) + j) = 1})
        /\ (ParseCase(ret) /\ ret'.op = "data_int" /\ ret'.self = ret.self) =>
              /\ ret'.exc = NoExc
              /\ ret'.val = Restrict(ret.arg, CoveredBits(ret.self))
              /\ (CoveredBits(ret.self) = 0..(nbits(insts[ret.self]) - 1) => ret'.val = ret.arg)
      ]_vars

\* parse_data_int(165) on the fully covered record, then data_int returning 165.
UnpackPackWitness ==
    /\ rt.stage = "again" /\ rt.d = 165 /\ ret.op = "data_int" /\ ret.val = 165
    /\ insts[rt.self].cls = "Nibbles"
    /\ ~error_check_overflow

(***************************************************************************)
(* C3  Little-endian bytes                                                 *)
(***************************************************************************)

\* C3: data_ints raises exactly when data_int does; otherwise, with d the value
\* of data_int, it returns nbytes entries, each in 0..255, entry i (counted from
\* 0) being (d >> 8i) & 0xFF, and the entries weighted by 256^i sum to d.
LittleEndianBytes ==
    ret.op = "data_ints" =>
        LET obj == insts[ret.self]
            d == data_int(heap, obj, error_check_overflow)
        IN  /\ ret.exc = d.exc
            /\ ret.exc = NoExc =>
                  /\ Len(ret.val) = obj.nbytes
                  /\ \A k \in 1..obj.nbytes :
                        /\ ret.val[k] \in 0..255
                        /\ ret.val[k] = (d.val \div (256 ^ (k - 1))) % 256
                  /\ LittleEndian(ret.val) = d.val

LittleEndianBytesWitness ==
    /\ ret.op = "data_ints" /\ ret.exc = NoExc
    /\ Len(ret.val) = 2
    /\ ret.val[1] = 192 /\ ret.val[2] = 33

(***************************************************************************)
(* C4  The value setter's overflow check                                   *)
(***************************************************************************)

\* C4: with overflow checking enabled, assigning v to a partition of bit length
\* L raises an Overflow error naming the partition and L exactly when
\* v >> L != 0, and otherwise stores v.
SetterRejectsExactlyOverflow ==
    (ret.op = "value" /\ error_check_overflow) =>
        LET p == heap[insts[ret.self].attrs[ret.key]]
        IN  /\ (ret.exc # NoExc) <=> (ShiftRight(ret.arg, p.length) # 0)
            /\ ret.exc # NoExc => ret.exc = OverflowError(ret.key, p.length, ret.arg)
            /\ ret.exc = NoExc => p.value = ret.arg

(***************************************************************************)
(* C5  Pack                                                                *)
(***************************************************************************)

\* C5: let acc be the number whose set bits are the bits that some partition
\* places: bit j (j < length) of its value, at position shift + j.  data_int
\* raises an Overflow error naming the record and nbits when checking is enabled
\* and acc >= 2^nbits, and returns acc mod 2^nbits in every other case.
Pack ==
    ret.op = "data_int" =>
        LET obj == insts[ret.self]
            acc == SumPow2(UNION {PlacedBits(p) : p \in Parts(ret.self)})
        IN  IF error_check_overflow /\ acc >= 2 ^ nbits(obj)
            THEN ret.exc = OverflowError(obj.name, nbits(obj), 0)
            ELSE /\ ret.exc = NoExc
                 /\ ret.val = acc % (2 ^ nbits(obj))
                 /\ ret.val \in 0..((2 ^ nbits(obj)) - 1)

\* The overflow case: a partition reaching past the record's last bit.
PackWitness ==
    /\ ret.op = "data_int" /\ error_check_overflow
    /\ ret.exc = OverflowError("Over", 8, 0)
    /\ \E p \in Parts(ret.self) : shift(p) + p.length > nbits(insts[ret.self])

(***************************************************************************)
(* C6  partition_map                                                       *)
(***************************************************************************)

MapAgrees(call) ==
    /\ call.exc = NoExc
    /\ DOMAIN call.val = {<<p.name>> : p \in Parts(call.self)}
    /\ Cardinality(DOMAIN call.val) = Len(insts[call.self].partitions)
    /\ \A r \in Range(insts[call.self].partitions) :
          call.val[<<heap[r].name>>] = masked_value(heap[r])

\* C6 as stated: for a record whose partitions do not overlap, partition_map()
\* has one entry per partition name, equal to that partition's masked_value.
MapOfDisjoint ==
    (ret.op = "partition_map" /\ ret.arg = FALSE /\ NoOverlap(ret.self)) => MapAgrees(ret)

\* C6 as amended: the same, for a record whose partitions do not overlap and
\* lie within its nbits bits.
MapOfDisjointFitting ==
    (ret.op = "partition_map" /\ ret.arg = FALSE /\ NoOverlap(ret.self) /\ FitsIn(ret.self))
        => MapAgrees(ret)

MapOfDisjointFittingWitness ==
    /\ ret.op = "partition_map" /\ ret.arg = FALSE
    /\ NoOverlap(ret.self) /\ FitsIn(ret.self)
    /\ \E p \in Parts(ret.self) : p.value > mask(p)
    /\ \E p \in Parts(ret.self) : masked_value(p) # 0

(***************************************************************************)
(* C7  The guard against constructing a base class                         *)
(***************************************************************************)

\* C7: constructing BitField, or a fixed-width base, itself raises
\* NotImplementedError and yields no instance.
BaseNotConstructed ==
    /\ (ret.op = "__init__" /\ ret.key \in Bases) => ret.exc = NotImplementedError
    /\ \A i \in Insts : insts[i].cls \notin Bases

(***************************************************************************)
(* C8  Instances are independent                                           *)
(***************************************************************************)

Values(h, obj) == [k \in DOMAIN obj.partitions |-> h[obj.partitions[k]].value]

\* C8: an assignment or a parse on one record leaves the partition values of
\* the other record as they were; the templates stay as declared, in name and
\* in value; and a record starts with its templates' values, however the
\* records constructed before it were changed.
Independent ==
    [][ /\ \A i \in Insts :
              (ret'.op \in {"value", "parse_data_int"} /\ ret'.self # i) =>
                  Values(heap', insts'[i]) = Values(heap, insts[i])
        /\ \A r \in TemplateRefs : heap'[r] = Template(r[2], r[3])
        /\ (ret'.op = "__init__" /\ ret'.exc = NoExc) =>
              \A b \in DOMAIN insts'[ret'.self].attrs :
                  heap'[insts'[ret'.self].attrs[b]].value = Template(ret'.key, b).value
      ]_vars

\* B has just been constructed, after A, of the same type, was changed.
IndependentWitness ==
    /\ ret.op = "__init__" /\ ret.exc = NoExc /\ ret.self = "B"
    /\ insts["A"].cls = insts["B"].cls
    /\ \A k \in DOMAIN insts["A"].partitions :
          heap[insts["A"].partitions[k]].value # heap[insts["B"].partitions[k]].value
    /\ insts["B"].partitions # <<>>

(***************************************************************************)
(* C9  The order of the partition list                                     *)
(***************************************************************************)

PartitionNames(i) == [k \in DOMAIN insts[i].partitions |-> heap[insts[i].partitions[k]].name]

DeclaredNames(cls) == [k \in DOMAIN Declared[cls].body |-> Declared[cls].body[k].binding]

\* C9 as stated: the partition list of a constructed record names the declared
\* partitions in declaration order.
DeclarationOrder ==
    \A i \in Insts : IsRecord(i) => PartitionNames(i) = DeclaredNames(insts[i].cls)

\* C9 as amended: the partition list of a constructed record holds one
\* partition per declared template, each named after its binding, in ascending
\* order of the names as Python compares strings.
NameOrder ==
    \A i \in Insts : IsRecord(i) =>
        LET names == PartitionNames(i)
        IN  /\ Len(names) = Len(Declared[insts[i].cls].body)
            /\ Range(names) = Bindings(insts[i].cls)
            /\ \A b \in DOMAIN insts[i].attrs : heap[insts[i].attrs[b]].name = b
            /\ \A k \in 1..(Len(names) - 1) :
                  LexLess(codepoints[names[k]], codepoints[names[k + 1]])

NameOrderWitness ==
    \E i \in Insts :
        /\ IsRecord(i)
        /\ PartitionNames(i) = <<"hi", "lo">>
        /\ DeclaredNames(insts[i].cls) = <<"lo", "hi">>

(***************************************************************************)
(* C10  Values stay within the mask while checking is enabled              *)
(***************************************************************************)

\* C10: as long as overflow checking has been enabled throughout, every
\* partition of every record holds a value with 0 <= value <= mask.
ValuesWithinMask ==
    always_checked =>
        \A i \in Insts : \A p \in Parts(i) : 0 <= p.value /\ p.value <= mask(p)

====
